---- MODULE Spec2Model ----
(***************************************************************************)
(* Drive Colorado: the COtrip ingestion pipeline.                          *)
(*   - cotripApi.ts      seven source fetchers and fetchAllLayerData       *)
(*   - cotripParsers.ts  the format normalizers                            *)
(*   - useMapLayers.ts   the layer cache and refresh controller            *)
(* Spec      is the controller (one hook instance and its environment).    *)
(* FetchSpec is one fan-out of fetchAllLayerData, fetcher by fetcher.      *)
(* ParseSpec is one call of a normalizer on an array of raw records.       *)
(***************************************************************************)
EXTENDS Integers, Sequences, FiniteSets, TLC

(***************************************************************************)
(* JavaScript values.  A value is a record tagged by its typeof-like kind; *)
(* a string is the sequence of its tokens, so that a template literal is   *)
(* a concatenation and the empty string is the empty sequence.             *)
(***************************************************************************)
Undefined == [t |-> "undefined"]

Null == [t |-> "null"]

Num(n) == [t |-> "number", nan |-> FALSE, v |-> n]

NaN == [t |-> "number", nan |-> TRUE, v |-> 0]

\* Infinity: a number above every finite one the model compares it with.
Infinity == [t |-> "number", nan |-> FALSE, v |-> 1000000000]

Str(s) == [t |-> "string", s |-> s]

Arr(xs) == [t |-> "array", items |-> xs]

Obj(fields) == [t |-> "object", f |-> fields]

\* JavaScript truthiness: what `!x`, `x || y` and `.filter(Boolean)` test.
Truthy(x) ==
  CASE x.t = "undefined" -> FALSE
    [] x.t = "null" -> FALSE
    [] x.t = "number" -> ~x.nan /\ x.v # 0
    [] x.t = "string" -> x.s # <<>>
    [] OTHER -> TRUE

\* Optional chaining `o?.k`: undefined when o is nullish or lacks the field.
Get(o, k) == IF o.t = "object" /\ k \in DOMAIN o.f THEN o.f[k] ELSE Undefined

\* `a || b`
OrElse(a, b) == IF Truthy(a) THEN a ELSE b

IsArray(x) == x.t = "array"

\* The text a value contributes to a template literal or to String(x).
Text(x) ==
  CASE x.t = "string" -> x.s
    [] x.t = "number" -> IF x.nan THEN <<"NaN">> ELSE <<x.v>>
    [] x.t = "undefined" -> <<"undefined">>
    [] x.t = "null" -> <<"null">>
    [] OTHER -> <<"[object]">>

(***************************************************************************)
(* Coordinate validation (cotripParsers.ts).                               *)
(***************************************************************************)
MinLon == -180

MaxLon == 180

MinLat == -90

MaxLat == 90

\* isValidCoordinate without the range comparisons of lines 35-38.
isValidCoordinateUnranged(coord) ==
  /\ Truthy(coord)
  /\ IsArray(coord)
  /\ Len(coord.items) = 2
  /\ coord.items[1].t = "number"
  /\ coord.items[2].t = "number"
  /\ ~coord.items[1].nan
  /\ ~coord.items[2].nan

isValidCoordinate(coord) ==
  IF ~Truthy(coord) \/ ~IsArray(coord) \/ Len(coord.items) # 2
  THEN FALSE
  ELSE LET lon == coord.items[1]
           lat == coord.items[2]
       IN  /\ lon.t = "number"
           /\ lat.t = "number"
           /\ ~lon.nan
           /\ ~lat.nan
           /\ lon.v >= MinLon
           /\ lon.v <= MaxLon
           /\ lat.v >= MinLat
           /\ lat.v <= MaxLat

\* A filter that keeps every entry.
FilterNothing(items) == items

\* Array.prototype.filter with isValidCoordinate as the predicate.
RECURSIVE FilterValid(_)
FilterValid(items) ==
  IF items = <<>> THEN <<>>
  ELSE IF isValidCoordinate(Head(items))
       THEN <<Head(items)>> \o FilterValid(Tail(items))
       ELSE FilterValid(Tail(items))

\* What `for (const feature of features)` iterates: the elements of an array;
\* any other non-nullish value either is not iterable (the TypeError is caught
\* by the parser's outer try, which returns []) or yields no usable record.
Iterate(features) == IF IsArray(features) THEN features.items ELSE <<>>

\* `features.length` is read before the parser's try block: a nullish
\* argument raises a TypeError out of the parser.
ParserThrows(features) == features.t \in {"undefined", "null"}

CO_BLUE == "#003DA5"

(***************************************************************************)
(* parseRoadConditionsToOverlays                                           *)
(***************************************************************************)
RoadConditionOverlay(feature) ==
  LET props == Get(feature, "properties")
      coords == Get(Get(feature, "geometry"), "coordinates")
      validCoordinates == FilterValid(coords.items)
  IN  IF ~Truthy(Get(props, "id")) THEN <<>>
      ELSE IF ~Truthy(coords) \/ ~IsArray(coords) THEN <<>>
      ELSE IF Len(validCoordinates) < 2 THEN <<>>
      ELSE << [ id |-> Get(props, "id"),
                coordinates |-> validCoordinates,
                layerType |-> "roadCondition",
                routeName |-> OrElse(Get(props, "routeName"), Str(<<"Unknown Route">>)),
                conditions |-> OrElse(Get(props, "currentConditions"), Arr(<<>>)),
                color |-> CO_BLUE ] >>

RECURSIVE RoadConditionLoop(_)
RoadConditionLoop(items) ==
  IF items = <<>> THEN <<>>
  ELSE RoadConditionOverlay(Head(items)) \o RoadConditionLoop(Tail(items))

parseRoadConditionsToOverlays(features) == RoadConditionLoop(Iterate(features))

(***************************************************************************)
(* parseIncidentsToMarkers: one marker per valid point of the MultiPoint.  *)
(***************************************************************************)
\* [a, b].filter(Boolean).join(' - ')
JoinTruthy(a, b) ==
  IF Truthy(a) /\ Truthy(b) THEN Str(Text(a) \o <<" - ">> \o Text(b))
  ELSE IF Truthy(a) THEN Str(Text(a))
  ELSE IF Truthy(b) THEN Str(Text(b))
  ELSE Str(<<>>)

IncidentMarker(feature, coord, index) ==
  LET props == Get(feature, "properties")
  IN  [ id |-> Str(Text(Get(props, "id")) \o <<"#", index>>),
        coordinate |-> [latitude |-> coord.items[2], longitude |-> coord.items[1]],
        layerType |-> "incidents",
        title |-> OrElse(Get(props, "type"), Str(<<"Incident">>)),
        subtitle |-> JoinTruthy(Get(props, "severity"), Get(props, "routeName")),
        rawData |-> feature ]

\* coordinates.forEach((coord, index) => ...), index counted from 0.
RECURSIVE IncidentPoints(_, _, _)
IncidentPoints(feature, items, index) ==
  IF items = <<>> THEN <<>>
  ELSE (IF isValidCoordinate(Head(items))
        THEN <<IncidentMarker(feature, Head(items), index)>>
        ELSE <<>>) \o IncidentPoints(feature, Tail(items), index + 1)

IncidentMarkers(feature) ==
  LET props == Get(feature, "properties")
      coords == Get(Get(feature, "geometry"), "coordinates")
  IN  IF ~Truthy(Get(props, "id")) THEN <<>>
      ELSE IF ~Truthy(coords) \/ ~IsArray(coords) THEN <<>>
      ELSE IncidentPoints(feature, coords.items, 0)

RECURSIVE IncidentLoop(_)
IncidentLoop(items) ==
  IF items = <<>> THEN <<>>
  ELSE IncidentMarkers(Head(items)) \o IncidentLoop(Tail(items))

parseIncidentsToMarkers(features) == IncidentLoop(Iterate(features))

(***************************************************************************)
(* parseWeatherStationsToMarkers                                           *)
(***************************************************************************)
\* String.prototype.toLowerCase on the tokens the feeds use for sensor types.
LowerToken(tok) ==
  IF tok \in {"Temperature", "TEMPERATURE", "temperature"} THEN "temperature" ELSE tok

toLowerCase(s) == [i \in DOMAIN s |-> LowerToken(s[i])]

\* sensors.find(sensor => sensor.type?.toLowerCase() === 'temperature'):
\* threw is TRUE when the callback raises before a match (a null sensor, or a
\* truthy type that is not a string).
RECURSIVE FindTemperature(_)
FindTemperature(items) ==
  IF items = <<>> THEN [threw |-> FALSE, sensor |-> Undefined]
  ELSE LET sensor == Head(items)
           type == Get(sensor, "type")
       IN  IF sensor.t \in {"undefined", "null"}
           THEN [threw |-> TRUE, sensor |-> Undefined]
           ELSE IF type.t \in {"undefined", "null"}
           THEN FindTemperature(Tail(items))
           ELSE IF type.t # "string"
           THEN [threw |-> TRUE, sensor |-> Undefined]
           ELSE IF toLowerCase(type.s) = <<"temperature">>
           THEN [threw |-> FALSE, sensor |-> sensor]
           ELSE FindTemperature(Tail(items))

WeatherStationMarkers(feature) ==
  LET props == Get(feature, "properties")
      coords == Get(Get(feature, "geometry"), "coordinates")
      sensors == Get(props, "sensors")
      found == IF sensors.t \in {"undefined", "null"}
               THEN [threw |-> FALSE, sensor |-> Undefined]
               ELSE IF ~IsArray(sensors)
               THEN [threw |-> TRUE, sensor |-> Undefined]
               ELSE FindTemperature(sensors.items)
      reading == Get(found.sensor, "currentReading")
  IN  IF ~Truthy(Get(props, "id")) THEN <<>>
      ELSE IF ~isValidCoordinate(coords) THEN <<>>
      ELSE IF found.threw THEN <<>>
      ELSE << [ id |-> Get(props, "id"),
                coordinate |-> [latitude |-> coords.items[2], longitude |-> coords.items[1]],
                layerType |-> "weatherStations",
                title |-> OrElse(Get(props, "publicName"),
                                 OrElse(Get(props, "name"), Str(<<"Weather Station">>))),
                subtitle |-> IF Truthy(reading) THEN reading ELSE Undefined,
                rawData |-> feature ] >>

RECURSIVE WeatherStationLoop(_)
WeatherStationLoop(items) ==
  IF items = <<>> THEN <<>>
  ELSE WeatherStationMarkers(Head(items)) \o WeatherStationLoop(Tail(items))

parseWeatherStationsToMarkers(features) == WeatherStationLoop(Iterate(features))

(***************************************************************************)
(* parseSnowPlowsToMarkers: a bespoke record, range-checked inline.        *)
(***************************************************************************)
\* A vehicle id that prefers the second id field to the first.
SnowPlowVehicleIdSecondFirst(record) ==
  LET vehicle == Get(Get(record, "avl_location"), "vehicle")
  IN  OrElse(Get(vehicle, "id2"),
             OrElse(Get(vehicle, "id"),
                    Str(Text(OrElse(Get(record, "rtdh_timestamp"), Str(<<>>))))))

\* Lines 241-244: vehicle.id || vehicle.id2 || String(rtdh_timestamp || '').
SnowPlowVehicleId(record) ==
  LET vehicle == Get(Get(record, "avl_location"), "vehicle")
  IN  OrElse(Get(vehicle, "id"),
             OrElse(Get(vehicle, "id2"),
                    Str(Text(OrElse(Get(record, "rtdh_timestamp"), Str(<<>>))))))

SnowPlowMarkers(record) ==
  LET avl == Get(record, "avl_location")
      vehicle == Get(avl, "vehicle")
      vehicleId == SnowPlowVehicleId(record)
      latitude == Get(Get(avl, "position"), "latitude")
      longitude == Get(Get(avl, "position"), "longitude")
      vehicleType == Get(vehicle, "type")
      statusInfo == Get(Get(avl, "current_status"), "info")
  IN  IF ~Truthy(vehicleId) THEN <<>>
      ELSE IF \/ latitude.t # "number"
              \/ longitude.t # "number"
              \/ latitude.nan
              \/ longitude.nan
              \/ latitude.v < MinLat
              \/ latitude.v > MaxLat
              \/ longitude.v < MinLon
              \/ longitude.v > MaxLon
      THEN <<>>
      ELSE << [ id |-> vehicleId,
                coordinate |-> [latitude |-> latitude, longitude |-> longitude],
                layerType |-> "snowPlows",
                title |-> IF Truthy(vehicleType) /\ vehicleType # Str(<<"Unknown">>)
                          THEN Str(<<"Snow Plow - ">> \o Text(vehicleType))
                          ELSE Str(<<"Snow Plow">>),
                subtitle |-> IF Truthy(statusInfo) /\ statusInfo # Str(<<"Unknown">>)
                             THEN statusInfo ELSE Undefined,
                rawData |-> record ] >>

RECURSIVE SnowPlowLoop(_)
SnowPlowLoop(items) ==
  IF items = <<>> THEN <<>>
  ELSE SnowPlowMarkers(Head(items)) \o SnowPlowLoop(Tail(items))

parseSnowPlowsToMarkers(records) == SnowPlowLoop(Iterate(records))

(***************************************************************************)
(* parsePlannedEventsToMarkers: one marker, at the first point only.       *)
(***************************************************************************)
\* [a, b].filter(Boolean).join(' - ') || undefined
JoinTruthyOrUndefined(a, b) ==
  IF Truthy(JoinTruthy(a, b)) THEN JoinTruthy(a, b) ELSE Undefined

\* The first usable entry of an array, or undefined.
FirstValidCoordinate(coords) ==
  IF FilterValid(coords.items) = <<>> THEN Undefined ELSE FilterValid(coords.items)[1]

\* coordinates[0]: the first entry of an array, or undefined.
FirstCoordinate(coords) ==
  IF coords.items = <<>> THEN Undefined ELSE coords.items[1]

PlannedEventMarkers(feature) ==
  LET props == Get(feature, "properties")
      coords == Get(Get(feature, "geometry"), "coordinates")
      firstCoord == FirstCoordinate(coords)
  IN  IF ~Truthy(Get(props, "id")) THEN <<>>
      ELSE IF ~Truthy(coords) \/ ~IsArray(coords) THEN <<>>
      ELSE IF ~isValidCoordinate(firstCoord) THEN <<>>
      ELSE << [ id |-> Get(props, "id"),
                coordinate |-> [latitude |-> firstCoord.items[2],
                                longitude |-> firstCoord.items[1]],
                layerType |-> "plannedEvents",
                title |-> OrElse(Get(props, "name"), Str(<<"Planned Event">>)),
                subtitle |-> JoinTruthyOrUndefined(Get(props, "type"), Get(props, "routeName")),
                rawData |-> feature ] >>

RECURSIVE PlannedEventLoop(_)
PlannedEventLoop(items) ==
  IF items = <<>> THEN <<>>
  ELSE PlannedEventMarkers(Head(items)) \o PlannedEventLoop(Tail(items))

parsePlannedEventsToMarkers(features) == PlannedEventLoop(Iterate(features))

(***************************************************************************)
(* parseDmsSignsToMarkers                                                  *)
(***************************************************************************)
DmsSignMarkers(feature) ==
  LET props == Get(feature, "properties")
      coords == Get(Get(feature, "geometry"), "coordinates")
      displayStatus == OrElse(Get(props, "displayStatus"), Str(<<"unknown">>))
      status == IF displayStatus = Str(<<"on">>) THEN Str(<<"Active">>)
                ELSE IF displayStatus = Str(<<"off">>) THEN Str(<<"Off">>)
                ELSE displayStatus
  IN  IF ~Truthy(Get(props, "id")) THEN <<>>
      ELSE IF ~isValidCoordinate(coords) THEN <<>>
      ELSE << [ id |-> Get(props, "id"),
                coordinate |-> [latitude |-> coords.items[2], longitude |-> coords.items[1]],
                layerType |-> "dmsSigns",
                title |-> OrElse(Get(props, "publicName"),
                                 OrElse(Get(props, "name"), Str(<<"DMS Sign">>))),
                subtitle |-> JoinTruthyOrUndefined(status, Get(props, "routeName")),
                rawData |-> feature ] >>

RECURSIVE DmsSignLoop(_)
DmsSignLoop(items) ==
  IF items = <<>> THEN <<>>
  ELSE DmsSignMarkers(Head(items)) \o DmsSignLoop(Tail(items))

parseDmsSignsToMarkers(features) == DmsSignLoop(Iterate(features))

(***************************************************************************)
(* parseWorkZonesToOverlays: WZDx features, LineString or MultiPoint.      *)
(***************************************************************************)
WORK_ZONE_COLOR == "#F59E0B"

\* Array.prototype.join(', '): nullish elements contribute the empty string.
RECURSIVE JoinComma(_)
JoinComma(items) ==
  IF items = <<>> THEN <<>>
  ELSE (IF Head(items).t \in {"undefined", "null"} THEN <<>> ELSE Text(Head(items)))
         \o (IF Tail(items) = <<>> THEN <<>> ELSE <<", ">> \o JoinComma(Tail(items)))

\* The overlay of one feature, count overlays having been emitted before it.
WorkZoneOverlay(feature, count) ==
  LET props == Get(feature, "properties")
      coreDetails == Get(props, "core_details")
      id == OrElse(Get(coreDetails, "data_source_id"), Str(<<"wz-", count>>))
      geometry == Get(feature, "geometry")
      coords == Get(geometry, "coordinates")
      coordinates ==
        IF Get(geometry, "type") \in {Str(<<"LineString">>), Str(<<"MultiPoint">>)}
        THEN FilterValid(coords.items)
        ELSE <<>>
      roadNames == Get(coreDetails, "road_names")
  IN  IF ~Truthy(coords) \/ ~IsArray(coords) THEN <<>>
      ELSE IF Len(coordinates) < 2 THEN <<>>
      \* feature.properties.core_details throws when properties is nullish,
      \* road_names?.join when road_names is neither nullish nor an array.
      ELSE IF props.t \in {"undefined", "null"} THEN <<>>
      ELSE IF roadNames.t \notin {"undefined", "null", "array"} THEN <<>>
      ELSE << [ id |-> id,
                coordinates |-> coordinates,
                layerType |-> "workZone",
                routeName |-> IF IsArray(roadNames)
                              THEN OrElse(Str(JoinComma(roadNames.items)),
                                          Str(<<"Unknown Road">>))
                              ELSE Str(<<"Unknown Road">>),
                color |-> WORK_ZONE_COLOR,
                description |-> Get(coreDetails, "description"),
                direction |-> Get(coreDetails, "direction"),
                eventType |-> Get(coreDetails, "event_type"),
                rawData |-> feature ] >>

RECURSIVE WorkZoneLoop(_, _)
WorkZoneLoop(items, overlays) ==
  IF items = <<>> THEN overlays
  ELSE WorkZoneLoop(Tail(items), overlays \o WorkZoneOverlay(Head(items), Len(overlays)))

parseWorkZonesToOverlays(features) == WorkZoneLoop(Iterate(features), <<>>)

(***************************************************************************)
(* Bounds of the model.                                                    *)
(***************************************************************************)
\* Refreshes one controller may start (caps the request counter).
MaxRefreshes == 2

\* Records in each array the upstream serves.
NumRecords == 2

(***************************************************************************)
(* The upstream API: what each endpoint serves.  Ids carry the feed and    *)
(* the request generation k, so that data of different refresh cycles can  *)
(* be told apart.                                                          *)
(***************************************************************************)
Feeds ==
  {"roadConditions", "incidents", "weatherStations", "snowPlows",
   "plannedEvents", "dmsSigns", "workZones"}

Coord(lon, lat) == Arr(<<Num(lon), Num(lat)>>)

SourceId(f, k, n) == Str(<<f, k, n>>)

ServerRecord(f, k, n) ==
  CASE f = "roadConditions" ->
         Obj([ properties |-> Obj([id |-> SourceId(f, k, n), routeName |-> Str(<<"I-70">>)]),
               geometry |-> Obj([ type |-> Str(<<"LineString">>),
                                  coordinates |-> Arr(<<Coord(-105, 39), NaN, Coord(-106, 40)>>) ]) ])
    [] f = "incidents" ->
         Obj([ properties |-> Obj([id |-> SourceId(f, k, n), type |-> Str(<<"Crash">>)]),
               geometry |-> Obj([ type |-> Str(<<"MultiPoint">>),
                                  coordinates |-> Arr(<<Coord(-105, 39), Coord(200, 39)>>) ]) ])
    [] f = "weatherStations" ->
         Obj([ properties |-> Obj([ id |-> SourceId(f, k, n),
                                    sensors |-> Arr(<<Obj([ type |-> Str(<<"Temperature">>),
                                                            currentReading |-> Str(<<"72F">>) ])>>) ]),
               geometry |-> Obj([type |-> Str(<<"Point">>), coordinates |-> Coord(-105, 40)]) ])
    [] f = "snowPlows" ->
         Obj([ rtdh_timestamp |-> Num(k),
               avl_location |-> Obj([ vehicle |-> Obj([id |-> SourceId(f, k, n), type |-> Str(<<"Unknown">>)]),
                                      position |-> Obj([latitude |-> Num(39), longitude |-> Num(-105)]) ]) ])
    [] f = "plannedEvents" ->
         Obj([ properties |-> Obj([id |-> SourceId(f, k, n), name |-> Str(<<"Paving">>)]),
               geometry |-> Obj([ type |-> Str(<<"MultiPoint">>),
                                  coordinates |-> Arr(<<Coord(-104, 38), Coord(-104, 39)>>) ]) ])
    [] f = "workZones" ->
         Obj([ properties |->
                 Obj([ core_details |-> Obj([ data_source_id |-> SourceId(f, k, n),
                                              road_names |-> Arr(<<Str(<<"I-25">>)>>) ]) ]),
               geometry |-> Obj([ type |-> Str(<<"LineString">>),
                                  coordinates |-> Arr(<<Coord(-104, 38), Coord(-104, 39)>>) ]) ])
    [] OTHER ->
         Obj([ properties |-> Obj([id |-> SourceId(f, k, n), displayStatus |-> Str(<<"on">>)]),
               geometry |-> Obj([type |-> Str(<<"Point">>), coordinates |-> Coord(-104, 38)]) ])

ServerFeatures(f, k) == Arr([n \in 1..NumRecords |-> ServerRecord(f, k, n)])

\* The JSON bodies an endpoint can answer a 2xx response with.
Bodies(f, k) ==
  { Null,
    Obj([type |-> Str(<<"FeatureCollection">>)]),
    Obj([type |-> Str(<<"FeatureCollection">>), features |-> Arr(<<>>)]),
    Obj([type |-> Str(<<"FeatureCollection">>), features |-> ServerFeatures(f, k)]) }

(***************************************************************************)
(* A source fetcher (cotripApi.ts; the seven fetchers are the same code    *)
(* pinned to seven endpoints).  A call is [pc, timer, value]:              *)
(*   pc    "idle" | "awaitFetch" | "awaitJson" | "returned" (line 48)      *)
(*         | "caught" (returned [] from the catch block) | "rejected"      *)
(*   timer "none" | "armed" | "cleared" | "fired"                          *)
(***************************************************************************)
IdleCall == [pc |-> "idle", timer |-> "none", value |-> Undefined]

\* clearTimeout: disarms an armed timer, no effect on one that fired.
clearTimeout(timer) == IF timer = "armed" THEN "cleared" ELSE timer

\* Lines 32-39: the controller and its timer are created, the request issued.
CallFetcher == [pc |-> "awaitFetch", timer |-> "armed", value |-> Undefined]

\* A catch block without its clearTimeout.
CatchBlockKeepingTimer(call) ==
  [pc |-> "caught", timer |-> call.timer, value |-> Arr(<<>>)]

\* A catch block that logs and rethrows.
CatchBlockRethrow(call) ==
  [pc |-> "rejected", timer |-> clearTimeout(call.timer), value |-> Undefined]

\* Lines 49-53: catch (error) { clearTimeout; console.error; return []; }
CatchBlock(call) ==
  [pc |-> "caught", timer |-> clearTimeout(call.timer), value |-> Arr(<<>>)]

\* Lines 41-47: the response arrived; a non-2xx status throws into the catch
\* block, a 2xx one goes on to read the body.
OnResponse(call, ok) ==
  LET cleared == [call EXCEPT !.timer = clearTimeout(call.timer)]
  IN  IF ~ok THEN CatchBlock(cleared)
      ELSE [cleared EXCEPT !.pc = "awaitJson"]

\* Line 48: return data.features || []; reading .features of null throws.
OnJson(call, data) ==
  IF data.t \in {"undefined", "null"} THEN CatchBlock(call)
  ELSE [call EXCEPT !.pc = "returned",
                    !.value = OrElse(Get(data, "features"), Arr(<<>>))]

\* The async function has returned or thrown.
Settled(call) == call.pc \in {"returned", "caught", "rejected"}

\* setTimeout(() => controller.abort(), REQUEST_TIMEOUT) fires: the pending
\* request rejects with an AbortError, which the catch block handles; a call
\* that is over is not affected.
OnTimeout(call) ==
  IF Settled(call) THEN [call EXCEPT !.timer = "fired"]
  ELSE CatchBlock([call EXCEPT !.timer = "fired"])

\* The transport outcomes of one call, and the call as it ends under each.
TransportFailures == {"networkError", "timeout", "non2xx"}

DecodeFailures == {"badJson", "nullBody"}

FetcherCall(outcome, features) ==
  CASE outcome = "networkError" -> CatchBlock(CallFetcher)
    [] outcome = "timeout" -> OnTimeout(CallFetcher)
    [] outcome = "non2xx" -> OnResponse(CallFetcher, FALSE)
    [] outcome = "badJson" -> CatchBlock(OnResponse(CallFetcher, TRUE))
    [] outcome = "nullBody" -> OnJson(OnResponse(CallFetcher, TRUE), Null)
    [] outcome = "noFeatures" ->
         OnJson(OnResponse(CallFetcher, TRUE), Obj([type |-> Str(<<"FeatureCollection">>)]))
    [] OTHER ->
         OnJson(OnResponse(CallFetcher, TRUE),
                Obj([type |-> Str(<<"FeatureCollection">>), features |-> features]))

(***************************************************************************)
(* fetchAllLayerData: Promise.all over the seven calls, in this order, the *)
(* results destructured by position into the record's keys.                *)
(***************************************************************************)
FetcherOrder ==
  <<"roadConditions", "incidents", "weatherStations", "snowPlows",
    "plannedEvents", "dmsSigns", "workZones">>

ResultKeys ==
  <<"roadConditions", "incidents", "weatherStations", "snowPlows",
    "plannedEvents", "dmsSigns", "workZones">>

EmptyLayerData == [key \in Feeds |-> Arr(<<>>)]

\* A fan-in that gives up on every feed as soon as one of them failed.
fetchAllLayerDataAllOrNothing(settled) ==
  IF \E f \in Feeds : settled[f].pc # "returned"
  THEN [pc |-> "fulfilled", value |-> EmptyLayerData]
  ELSE [pc |-> "fulfilled", value |-> [key \in Feeds |-> settled[key].value]]

\* Lines 250-290, given the seven settled calls: the record of their values,
\* or the all-empty record when Promise.all rejected.
fetchAllLayerData(settled) ==
  IF \E f \in Feeds : settled[f].pc = "rejected"
  THEN [pc |-> "fulfilled", value |-> EmptyLayerData]
  ELSE [pc |-> "fulfilled",
        value |-> [key \in Feeds |->
                     LET i == CHOOSE j \in 1..Len(ResultKeys) : ResultKeys[j] = key
                     IN  settled[FetcherOrder[i]].value]]

(***************************************************************************)
(* useMapLayers: the layer cache and refresh controller.                   *)
(***************************************************************************)
LayerType == {"roadConditions", "incidents", "weatherStations", "snowPlows"}

AppStateStatus == {"active", "background", "inactive"}

\* Defaults that switch every layer on.
ALL_LAYERS_ENABLED == [l \in LayerType |-> TRUE]

DEFAULT_ENABLED_LAYERS ==
  [ roadConditions |-> TRUE, incidents |-> TRUE,
    weatherStations |-> FALSE, snowPlows |-> FALSE ]

EmptyCache == [l \in LayerType |-> <<>>]

\* The layer ids the layer menu offers and passes to toggleLayer.
AVAILABLE_LAYERS ==
  {"roadConditions", "incidents", "workZones", "plannedEvents",
   "weatherStations", "snowPlows", "dmsSigns"}

\* The ids the user toggles here: the four the hook has a key for, and one of
\* the three it has none for (toggleLayer treats those three alike).
ToggledLayers == LayerType \cup {"plannedEvents"}

\* error: string | null, and lastUpdated: Date | null (dates are clock readings >= 1).
NoError == "null"

FetchErrorMessage == "Failed to fetch layer data"

NoDate == 0

VARIABLES
  phase,              \* "rendered" (state cells created), "mounted" (effects ran), "unmounted"
  hostState,          \* the app state of the host process
  appStateRef,        \* appStateRef.current
  refreshIntervalRef, \* TRUE while the setInterval timer is set
  subscription,       \* TRUE while the AppState 'change' listener is registered
  enabledLayers,
  cachedData,
  isLoading,
  lastUpdated,
  error,
  inflight,           \* the refreshData calls suspended at `await fetchAllLayerData()`
  issued,             \* how many all-sources fetches have been started
  now,                \* the clock `new Date()` reads
  lastCall,           \* the handler that ran last: [op, arg, started]
  calls,              \* FetchSpec: the seven fetcher calls of one fan-out
  joined,             \* FetchSpec: the fetchAllLayerData call
  normalizer,         \* ParseSpec: the layer key of the normalizer called, or "none"
  rawFeatures,        \* ParseSpec: the argument it was called with
  parsed,             \* ParseSpec: the array it returned
  raised              \* ParseSpec: TRUE when the call threw instead of returning

vars ==
  << phase, hostState, appStateRef, refreshIntervalRef, subscription, enabledLayers,
     cachedData, isLoading, lastUpdated, error, inflight, issued, now, lastCall,
     calls, joined, normalizer, rawFeatures, parsed, raised >>

hookState == <<enabledLayers, cachedData, isLoading, lastUpdated, error>>

fetchVars == <<calls, joined>>

parseVars == <<normalizer, rawFeatures, parsed, raised>>

IdleJoin == [pc |-> "idle", value |-> EmptyLayerData]

Call(op, arg, started) == [op |-> op, arg |-> arg, started |-> started]

\* Lines 597-616: the state cells and refs of the first render.
Init ==
  /\ phase = "rendered"
  /\ hostState \in AppStateStatus
  /\ appStateRef = hostState
  /\ refreshIntervalRef = FALSE
  /\ subscription = FALSE
  /\ enabledLayers = DEFAULT_ENABLED_LAYERS
  /\ cachedData = EmptyCache
  /\ isLoading = FALSE
  /\ lastUpdated = NoDate
  /\ error = NoError
  /\ inflight = {}
  /\ issued = 0
  /\ now = 0
  /\ lastCall = Call("render", "", FALSE)
  /\ calls = [f \in Feeds |-> IdleCall]
  /\ joined = IdleJoin
  /\ normalizer = "none"
  /\ rawFeatures = Arr(<<>>)
  /\ parsed = <<>>
  /\ raised = FALSE

\* refreshData without the app-state guard of lines 623-625.
refreshDataUnguarded(ref) ==
  /\ issued < MaxRefreshes
  /\ isLoading' = TRUE
  /\ error' = NoError
  /\ issued' = issued + 1
  /\ inflight' = inflight \cup {issued + 1}

\* Lines 621-633: refreshData up to its await.  ref is appStateRef.current as
\* the guard reads it.
refreshData(ref) ==
  IF ref # "active"
  THEN UNCHANGED <<isLoading, error, inflight, issued>>
  ELSE /\ issued < MaxRefreshes
       /\ isLoading' = TRUE
       /\ error' = NoError
       /\ issued' = issued + 1
       /\ inflight' = inflight \cup {issued + 1}

\* Whether the step issued an all-sources fetch.
Started == inflight' \ inflight # {}

\* Lines 726-766: the three effects of the first commit.
MountEffects ==
  /\ phase = "rendered"
  /\ phase' = "mounted"
  /\ refreshData(appStateRef)
  /\ refreshIntervalRef' = TRUE
  /\ subscription' = TRUE
  /\ lastCall' = Call("mount", "", Started)
  /\ UNCHANGED <<hostState, appStateRef, enabledLayers, cachedData, lastUpdated, now>>
  /\ UNCHANGED <<fetchVars, parseVars>>

\* Lines 739-741: the interval timer fires.
TimerTick ==
  /\ refreshIntervalRef
  /\ refreshData(appStateRef)
  /\ lastCall' = Call("timer", "", Started)
  /\ UNCHANGED <<phase, hostState, appStateRef, refreshIntervalRef, subscription,
                 enabledLayers, cachedData, lastUpdated, now>>
  /\ UNCHANGED <<fetchVars, parseVars>>

\* HomeScreen.handleErrorRetry, or any consumer calling the exposed refreshData.
ManualRefresh ==
  /\ phase = "mounted"
  /\ refreshData(appStateRef)
  /\ lastCall' = Call("manual", "", Started)
  /\ UNCHANGED <<phase, hostState, appStateRef, refreshIntervalRef, subscription,
                 enabledLayers, cachedData, lastUpdated, now>>
  /\ UNCHANGED <<fetchVars, parseVars>>

\* A listener that skips the refresh on return when one is already loading.
AppStateChangeUnlessLoading(nextAppState) ==
  /\ subscription
  /\ nextAppState # hostState
  /\ hostState' = nextAppState
  /\ appStateRef' = nextAppState
  /\ IF appStateRef # "active" /\ nextAppState = "active" /\ ~isLoading
     THEN refreshData(nextAppState)
     ELSE UNCHANGED <<isLoading, error, inflight, issued>>
  /\ lastCall' = Call("appState", nextAppState, Started)
  /\ UNCHANGED <<phase, refreshIntervalRef, subscription, enabledLayers, cachedData,
                 lastUpdated, now>>
  /\ UNCHANGED <<fetchVars, parseVars>>

\* Lines 753-761: the host changes state and the listener hears of it.
AppStateChange(nextAppState) ==
  /\ subscription
  /\ nextAppState # hostState
  /\ hostState' = nextAppState
  /\ appStateRef' = nextAppState
  /\ IF appStateRef # "active" /\ nextAppState = "active"
     THEN refreshData(nextAppState)
     ELSE UNCHANGED <<isLoading, error, inflight, issued>>
  /\ lastCall' = Call("appState", nextAppState, Started)
  /\ UNCHANGED <<phase, refreshIntervalRef, subscription, enabledLayers, cachedData,
                 lastUpdated, now>>
  /\ UNCHANGED <<fetchVars, parseVars>>

\* The host changes state while no listener is registered: between the first
\* render (line 616 reads AppState.currentState) and the effects, or after
\* the cleanup.
HostChange(nextAppState) ==
  /\ ~subscription
  /\ nextAppState # hostState
  /\ hostState' = nextAppState
  /\ lastCall' = Call("hostChange", nextAppState, FALSE)
  /\ UNCHANGED <<phase, appStateRef, refreshIntervalRef, subscription, inflight, issued, now>>
  /\ UNCHANGED hookState
  /\ UNCHANGED <<fetchVars, parseVars>>

\* The flag of a layer as its readers take it: a key the record lacks reads
\* undefined, which is falsy (`enabledLayers[layer.id] ?? false`).
Enabled(flags, id) == id \in DOMAIN flags /\ flags[id]

\* A toggle that can only switch a layer on.
ToggledOn(prev, id) ==
  IF id \in DOMAIN prev THEN [prev EXCEPT ![id] = TRUE]
  ELSE prev @@ (id :> TRUE)

\* { ...prev, [id]: !prev[id] }: a key the record lacks is added as true.
Toggled(prev, id) ==
  IF id \in DOMAIN prev THEN [prev EXCEPT ![id] = ~prev[id]]
  ELSE prev @@ (id :> TRUE)

\* A toggleLayer that refetches after flipping the flag.
toggleLayerRefetch(id) ==
  /\ phase = "mounted"
  /\ enabledLayers' = Toggled(enabledLayers, id)
  /\ refreshData(appStateRef)
  /\ lastCall' = Call("toggleLayer", id, Started)
  /\ UNCHANGED <<phase, hostState, appStateRef, refreshIntervalRef, subscription,
                 cachedData, lastUpdated, now>>
  /\ UNCHANGED <<fetchVars, parseVars>>

\* Lines 671-681; HomeScreen.handleToggleLayer passes the menu's id uncast.
toggleLayer(id) ==
  /\ phase = "mounted"
  /\ enabledLayers' = Toggled(enabledLayers, id)
  /\ lastCall' = Call("toggleLayer", id, FALSE)
  /\ UNCHANGED <<phase, hostState, appStateRef, refreshIntervalRef, subscription,
                 cachedData, isLoading, lastUpdated, error, inflight, issued, now>>
  /\ UNCHANGED <<fetchVars, parseVars>>

\* Lines 643-648.
ParsedData(data) ==
  [ roadConditions |-> parseRoadConditionsToOverlays(data.roadConditions),
    incidents |-> parseIncidentsToMarkers(data.incidents),
    weatherStations |-> parseWeatherStationsToMarkers(data.weatherStations),
    snowPlows |-> parseSnowPlowsToMarkers(data.snowPlows) ]

\* A merge that keeps a layer's previous entities when the new array is empty.
setCachedDataMerge(prev, parsedData) ==
  [l \in LayerType |-> IF parsedData[l] = <<>> THEN prev[l] ELSE parsedData[l]]

\* Line 657: setCachedData(parsedData).
setCachedData(prev, parsedData) == parsedData

\* Lines 686-690 and 695-724: the derived views, as the memos compute them
\* from the flags and the cache of a render.
Overlays(flags, cache) ==
  IF flags.roadConditions THEN cache.roadConditions ELSE <<>>

Markers(flags, cache) ==
  (IF flags.incidents THEN cache.incidents ELSE <<>>)
    \o (IF flags.weatherStations THEN cache.weatherStations ELSE <<>>)
    \o (IF flags.snowPlows THEN cache.snowPlows ELSE <<>>)

filteredOverlays == Overlays(enabledLayers, cachedData)

\* A markers memo that leaves the weather-station flag out of what it reads.
filteredMarkersUnfiltered ==
  (IF enabledLayers.incidents THEN cachedData.incidents ELSE <<>>)
    \o cachedData.weatherStations
    \o (IF enabledLayers.snowPlows THEN cachedData.snowPlows ELSE <<>>)

filteredMarkers == Markers(enabledLayers, cachedData)

\* The seven calls of refresh number id as they ended: the feeds in `failing`
\* failed in the way FailureOf gives, the others served their features.
FailureOf ==
  [ roadConditions |-> "networkError", incidents |-> "timeout",
    weatherStations |-> "non2xx", snowPlows |-> "badJson",
    plannedEvents |-> "nullBody", dmsSigns |-> "networkError", workZones |-> "timeout" ]

\* The sets of failing feeds a refresh may meet: none, one marker feed, one
\* overlay feed with a feed the hook does not read, and all seven.
OutageScenarios ==
  { {}, {"incidents"}, {"roadConditions", "plannedEvents"}, Feeds }

SettledCalls(id, failing) ==
  [f \in Feeds |->
     IF f \in failing THEN FetcherCall(FailureOf[f], Arr(<<>>))
     ELSE FetcherCall("features", ServerFeatures(f, id))]

\* Whether the try block of lines 631-658 raises: the awaited promise
\* rejected, or a parser was handed a nullish array.
TryThrows(result) ==
  \/ result.pc = "rejected"
  \/ \E l \in LayerType : ParserThrows(result.value[l])

\* What `await fetchAllLayerData()` yields to refresh number id under each
\* scenario, and the parsedData of lines 643-648 built from it.
FetchResults ==
  [id \in 1..MaxRefreshes |->
     [failing \in OutageScenarios |-> fetchAllLayerData(SettledCalls(id, failing))]]

NormalizedResults ==
  [id \in 1..MaxRefreshes |->
     [failing \in OutageScenarios |->
        IF TryThrows(FetchResults[id][failing]) THEN EmptyCache
        ELSE ParsedData(FetchResults[id][failing].value)]]

\* A refreshData that lowers isLoading only when no other refresh is in flight.
RefreshSettleCounting(id, failing) ==
  /\ id \in inflight
  /\ inflight' = inflight \ {id}
  /\ IF phase = "unmounted"
     THEN UNCHANGED <<cachedData, lastUpdated, error, isLoading, now>>
     ELSE /\ cachedData' = setCachedData(cachedData, NormalizedResults[id][failing])
          /\ now' = now + 1
          /\ lastUpdated' = now'
          /\ UNCHANGED error
          /\ isLoading' = (inflight' # {})
  /\ lastCall' = Call("settle", IF failing = Feeds THEN "outage" ELSE "served", FALSE)
  /\ UNCHANGED <<phase, hostState, appStateRef, refreshIntervalRef, subscription,
                 enabledLayers, issued>>
  /\ UNCHANGED <<fetchVars, parseVars>>

\* A refreshData that consults the app-state guard again after its await and
\* drops the result when the app is no longer active.
RefreshSettleIfActive(id, failing) ==
  /\ id \in inflight
  /\ inflight' = inflight \ {id}
  /\ IF phase = "unmounted"
     THEN UNCHANGED <<cachedData, lastUpdated, error, isLoading, now>>
     ELSE /\ IF appStateRef = "active"
             THEN /\ cachedData' = setCachedData(cachedData, NormalizedResults[id][failing])
                  /\ now' = now + 1
                  /\ lastUpdated' = now'
             ELSE UNCHANGED <<cachedData, lastUpdated, now>>
          /\ UNCHANGED error
          /\ isLoading' = FALSE
  /\ lastCall' = Call("settle", IF failing = Feeds THEN "outage" ELSE "served", FALSE)
  /\ UNCHANGED <<phase, hostState, appStateRef, refreshIntervalRef, subscription,
                 enabledLayers, issued>>
  /\ UNCHANGED <<fetchVars, parseVars>>

\* A refreshData that drops the result of a fetch that is no longer the one
\* requested last.
RefreshSettleLatestOnly(id, failing) ==
  /\ id \in inflight
  /\ inflight' = inflight \ {id}
  /\ IF phase = "unmounted"
     THEN UNCHANGED <<cachedData, lastUpdated, error, isLoading, now>>
     ELSE /\ IF id = issued
             THEN /\ cachedData' = setCachedData(cachedData, NormalizedResults[id][failing])
                  /\ now' = now + 1
                  /\ lastUpdated' = now'
             ELSE UNCHANGED <<cachedData, lastUpdated, now>>
          /\ UNCHANGED error
          /\ isLoading' = FALSE
  /\ lastCall' = Call("settle", IF failing = Feeds THEN "outage" ELSE "served", FALSE)
  /\ UNCHANGED <<phase, hostState, appStateRef, refreshIntervalRef, subscription,
                 enabledLayers, issued>>
  /\ UNCHANGED <<fetchVars, parseVars>>

\* Lines 633-665: refreshData from the await on, for the fetch of refresh id.
\* State updates of an unmounted component are dropped.
RefreshSettle(id, failing) ==
  /\ id \in inflight
  /\ inflight' = inflight \ {id}
  /\ LET result == FetchResults[id][failing]
     IN  IF phase = "unmounted"
         THEN UNCHANGED <<cachedData, lastUpdated, error, isLoading, now>>
         ELSE /\ IF TryThrows(result)
                 THEN /\ error' = FetchErrorMessage
                      /\ UNCHANGED <<cachedData, lastUpdated, now>>
                 ELSE /\ cachedData' = setCachedData(cachedData, NormalizedResults[id][failing])
                      /\ now' = now + 1
                      /\ lastUpdated' = now'
                      /\ UNCHANGED error
              /\ isLoading' = FALSE
  /\ lastCall' = Call("settle", IF failing = Feeds THEN "outage" ELSE "served", FALSE)
  /\ UNCHANGED <<phase, hostState, appStateRef, refreshIntervalRef, subscription,
                 enabledLayers, issued>>
  /\ UNCHANGED <<fetchVars, parseVars>>

SomeRefreshSettles ==
  \E id \in inflight, failing \in OutageScenarios : RefreshSettle(id, failing)

\* Cleanups that remove the subscription and leave the interval timer set.
UnmountKeepingTimer ==
  /\ phase = "mounted"
  /\ phase' = "unmounted"
  /\ subscription' = FALSE
  /\ lastCall' = Call("unmount", "", FALSE)
  /\ UNCHANGED <<hostState, appStateRef, refreshIntervalRef, inflight, issued, now>>
  /\ UNCHANGED hookState
  /\ UNCHANGED <<fetchVars, parseVars>>

\* Lines 744-748 and 763-765: the cleanups.
Unmount ==
  /\ phase = "mounted"
  /\ phase' = "unmounted"
  /\ refreshIntervalRef' = FALSE
  /\ subscription' = FALSE
  /\ lastCall' = Call("unmount", "", FALSE)
  /\ UNCHANGED <<hostState, appStateRef, inflight, issued, now>>
  /\ UNCHANGED hookState
  /\ UNCHANGED <<fetchVars, parseVars>>

Next ==
  \/ MountEffects
  \/ TimerTick
  \/ ManualRefresh
  \/ \E nextAppState \in AppStateStatus : AppStateChange(nextAppState)
  \/ \E nextAppState \in AppStateStatus : HostChange(nextAppState)
  \/ \E id \in ToggledLayers : toggleLayer(id)
  \/ SomeRefreshSettles
  \/ Unmount

Spec == Init /\ [][Next]_vars

(***************************************************************************)
(* FetchSpec: one call of fetchAllLayerData, its seven fetcher calls       *)
(* advancing independently.  The controller is left as constructed.        *)
(***************************************************************************)
controllerVars ==
  << phase, hostState, appStateRef, refreshIntervalRef, subscription, enabledLayers,
     cachedData, isLoading, lastUpdated, error, inflight, issued, now, lastCall >>

\* The request generation of the fan-out: that of the next refresh.
FetchCycle == issued + 1

FetchInit == Init /\ hostState = "active"

\* A fan-out that awaits its first call before making the second.
FetchAllStartAwaitingFirst ==
  /\ joined.pc = "idle"
  /\ calls' = [f \in Feeds |-> IF f = FetcherOrder[1] THEN CallFetcher ELSE IdleCall]
  /\ joined' = [joined EXCEPT !.pc = "awaiting"]
  /\ UNCHANGED <<controllerVars, parseVars>>

\* Lines 259-267: the seven calls are made, in order, before anything is awaited.
FetchAllStart ==
  /\ joined.pc = "idle"
  /\ calls' = [f \in Feeds |-> CallFetcher]
  /\ joined' = [joined EXCEPT !.pc = "awaiting"]
  /\ UNCHANGED <<controllerVars, parseVars>>

\* fetch() resolves with a response whose status is 2xx (ok) or not.
FetchResolves(f, ok) ==
  /\ calls[f].pc = "awaitFetch"
  /\ calls' = [calls EXCEPT ![f] = OnResponse(calls[f], ok)]
  /\ UNCHANGED <<joined, controllerVars, parseVars>>

\* fetch() rejects: a network error.
FetchRejects(f) ==
  /\ calls[f].pc = "awaitFetch"
  /\ calls' = [calls EXCEPT ![f] = CatchBlock(calls[f])]
  /\ UNCHANGED <<joined, controllerVars, parseVars>>

\* The REQUEST_TIMEOUT timer of the call fires.
TimeoutFires(f) ==
  /\ calls[f].timer = "armed"
  /\ calls' = [calls EXCEPT ![f] = OnTimeout(calls[f])]
  /\ UNCHANGED <<joined, controllerVars, parseVars>>

\* response.json() resolves with the decoded body.
JsonResolves(f, data) ==
  /\ calls[f].pc = "awaitJson"
  /\ calls' = [calls EXCEPT ![f] = OnJson(calls[f], data)]
  /\ UNCHANGED <<joined, controllerVars, parseVars>>

\* response.json() rejects: the body is not JSON.
JsonRejects(f) ==
  /\ calls[f].pc = "awaitJson"
  /\ calls' = [calls EXCEPT ![f] = CatchBlock(calls[f])]
  /\ UNCHANGED <<joined, controllerVars, parseVars>>

\* Promise.all settles: fulfilled once all seven calls are, rejected as soon
\* as one is; lines 269-289 build the record.
Join ==
  /\ joined.pc = "awaiting"
  /\ \/ \A f \in Feeds : Settled(calls[f])
     \/ \E f \in Feeds : calls[f].pc = "rejected"
  /\ joined' = fetchAllLayerData(calls)
  /\ UNCHANGED <<calls, controllerVars, parseVars>>

FetchNext ==
  \/ FetchAllStart
  \/ \E f \in Feeds, ok \in BOOLEAN : FetchResolves(f, ok)
  \/ \E f \in Feeds : FetchRejects(f)
  \/ \E f \in Feeds : TimeoutFires(f)
  \/ \E f \in Feeds : \E data \in Bodies(f, FetchCycle) : JsonResolves(f, data)
  \/ \E f \in Feeds : JsonRejects(f)
  \/ Join

FetchSpec == FetchInit /\ [][FetchNext]_vars

(***************************************************************************)
(* Claims about the controller, checked under Spec.                        *)
(***************************************************************************)
Elements(seq) == {seq[i] : i \in DOMAIN seq}

CachedEntities == UNION {Elements(cachedData[l]) : l \in LayerType}

\* The refresh cycle an entity's data was fetched in: the generation its
\* source id carries.
CycleOf(entity) == entity.id.s[2]

\* C1: a refresh that settles while all seven feeds fail at the transport
\* level, after an earlier refresh populated the cache, leaves the cached
\* entities in place and sets error to a non-null string.
C1_StaleCacheOnOutage ==
  [][ \A id \in inflight :
        ( /\ RefreshSettle(id, Feeds)
          /\ phase = "mounted"
          /\ inflight = {id}
          /\ cachedData # EmptyCache )
        => (cachedData' = cachedData /\ error' # NoError) ]_vars

\* C2: a refresh whose all-sources fetch failed (it rejected, or every source
\* failed) sets error to a non-null string and keeps the cache and
\* lastUpdated; any other refresh replaces the whole cache by the newly
\* normalized data, sets lastUpdated and leaves error null.
FetchFailed(id, failing) ==
  \/ fetchAllLayerData(SettledCalls(id, failing)).pc = "rejected"
  \/ failing = Feeds

C2_SettleOutcome ==
  [][ \A id \in inflight, failing \in OutageScenarios :
        (RefreshSettle(id, failing) /\ phase = "mounted")
        => IF FetchFailed(id, failing)
           THEN /\ error' # NoError
                /\ cachedData' = cachedData
                /\ lastUpdated' = lastUpdated
           ELSE /\ cachedData' = ParsedData(fetchAllLayerData(SettledCalls(id, failing)).value)
                /\ lastUpdated' # NoDate
                /\ lastUpdated' # lastUpdated
                /\ error' = NoError ]_vars

\* C3: toggleLayer(key) starts no fetch, leaves the cache, isLoading,
\* lastUpdated and error unchanged, and flips the flag of exactly that key;
\* no step changes the enabled flags in any other way.
C3_ToggleNeverFetches ==
  [][ /\ \A id \in AVAILABLE_LAYERS :
           toggleLayer(id)
           => /\ ~Started
              /\ issued' = issued
              /\ UNCHANGED <<cachedData, isLoading, lastUpdated, error>>
              /\ Enabled(enabledLayers', id) = ~Enabled(enabledLayers, id)
              /\ \A other \in AVAILABLE_LAYERS \ {id} :
                   Enabled(enabledLayers', other) = Enabled(enabledLayers, other)
      /\ enabledLayers' # enabledLayers
           => /\ Cardinality({l \in AVAILABLE_LAYERS :
                                Enabled(enabledLayers', l) # Enabled(enabledLayers, l)}) = 1
              /\ ~Started
              /\ UNCHANGED <<cachedData, isLoading, lastUpdated, error>> ]_vars

\* A toggle while a refresh is in flight and the app is backgrounded.
C3_Witness ==
  /\ lastCall.op = "toggleLayer"
  /\ inflight # {}
  /\ appStateRef = "background"
  /\ enabledLayers # DEFAULT_ENABLED_LAYERS

\* C4: a refreshData call made while the tracked app state is not 'active'
\* issues no fetch and changes nothing; no fetch is ever started while the
\* tracked app state is not 'active'.
C4_NoFetchWhileBackgrounded ==
  [][ /\ Started => appStateRef' = "active"
      /\ ((MountEffects \/ TimerTick \/ ManualRefresh) /\ appStateRef # "active")
           => UNCHANGED <<cachedData, isLoading, lastUpdated, error, inflight, issued>> ]_vars

\* A timer tick that found the app backgrounded, with stale data in the cache.
C4_Witness ==
  /\ lastCall = Call("timer", "", FALSE)
  /\ appStateRef # "active"
  /\ cachedData # EmptyCache

C6_MountAndTickRefresh ==
  [][ /\ (MountEffects /\ hostState = "active") => Started
      /\ (TimerTick /\ hostState = "active") => Started ]_vars

\* C7: isLoading is true exactly when a fetch started by refresh is in flight.
C7_LoadingIffInFlight ==
  phase = "mounted" => (isLoading <=> inflight # {})

\* C8: the cache, and the views derived from it, never hold entities of two
\* different refresh cycles.
C8_AtomicReplace ==
  /\ \A a, b \in CachedEntities : CycleOf(a) = CycleOf(b)
  /\ \A a, b \in Elements(filteredMarkers) \cup Elements(filteredOverlays) :
       CycleOf(a) = CycleOf(b)

\* The second refresh's data replaced the first's in every layer it served.
C8_Witness ==
  /\ lastCall.op = "settle"
  /\ lastUpdated >= 2
  /\ cachedData.roadConditions # <<>>
  /\ cachedData.snowPlows # <<>>
  /\ cachedData.incidents = <<>>
  /\ \A a \in CachedEntities : CycleOf(a) = 2

(***************************************************************************)
(* Claims about the fetch layer, checked under FetchSpec.                  *)
(***************************************************************************)
\* C9: a source fetcher call never rejects.  On a network error, a timeout,
\* a non-2xx status, a body that is not JSON and a null body it returns the
\* empty array; on a non-2xx status the body is not read; on a decoded body it
\* returns the features array, or the empty array when features is absent.
C9_FetcherNeverRaises ==
  [][ \A f \in Feeds :
        /\ calls'[f].pc # "rejected"
        /\ calls'[f] # calls[f] =>
             /\ ( \/ FetchRejects(f)
                  \/ TimeoutFires(f)
                  \/ FetchResolves(f, FALSE)
                  \/ JsonRejects(f)
                  \/ JsonResolves(f, Null) )
                => (calls'[f].pc \in {"returned", "caught"} /\ calls'[f].value = Arr(<<>>))
             /\ FetchResolves(f, TRUE)
                => (calls'[f].pc = "awaitJson" /\ calls'[f].timer = "cleared")
             /\ \A data \in Bodies(f, FetchCycle) \ {Null} :
                  JsonResolves(f, data)
                  => /\ calls'[f].pc = "returned"
                     /\ calls'[f].value =
                          IF "features" \in DOMAIN data.f THEN data.f.features
                          ELSE Arr(<<>>) ]_vars

\* All seven calls have settled: one by timeout, one by another failure, one
\* on a body without features, one with its features.
C9_Witness ==
  /\ \A f \in Feeds : calls[f].pc \in {"returned", "caught"}
  /\ calls["incidents"] = [pc |-> "caught", timer |-> "fired", value |-> Arr(<<>>)]
  /\ calls["dmsSigns"] = [pc |-> "caught", timer |-> "cleared", value |-> Arr(<<>>)]
  /\ calls["workZones"] = [pc |-> "returned", timer |-> "cleared", value |-> Arr(<<>>)]
  /\ calls["snowPlows"].value = ServerFeatures("snowPlows", FetchCycle)

\* The feeds whose call ended in its catch block.
FailedFeeds == {f \in Feeds : calls[f].pc = "caught"}

\* C10: whatever set of feeds fails, fetchAllLayerData settles fulfilled with a
\* record of all seven keys, in which every failed feed maps to the empty
\* array and every other feed maps to the array its own fetcher returned.
C10_FailSoftFanIn ==
  /\ joined.pc # "rejected"
  /\ joined.pc = "fulfilled"
       => /\ DOMAIN joined.value = Feeds
          /\ \A f \in Feeds : joined.value[f] = calls[f].value
          /\ \A f \in FailedFeeds : joined.value[f] = Arr(<<>>)
          /\ \A f \in Feeds \ FailedFeeds : calls[f].pc = "returned"

\* The fan-in settled with two feeds failed and the other five served.
C10_Witness ==
  /\ joined.pc = "fulfilled"
  /\ FailedFeeds = {"incidents", "workZones"}
  /\ \A f \in Feeds \ FailedFeeds : joined.value[f] = ServerFeatures(f, FetchCycle)

\* A fetcher call that has been made and has not returned.
Pending(call) == call.pc \in {"awaitFetch", "awaitJson"}

\* C11: every fetcher call is time-bounded until its response has fully
\* resolved: as long as the call is pending, on the headers or on the JSON
\* body, its REQUEST_TIMEOUT timer is armed, so that the timer's firing cancels
\* the request and the call returns the empty array; no call is left pending
\* with nothing to end it.
C11_TimeBoundedFetch ==
  \A f \in Feeds : Pending(calls[f]) => calls[f].timer = "armed"

(***************************************************************************)
(* Claims about the exposed views, checked under Spec.                     *)
(***************************************************************************)
\* The fixed layer orders of the two views.
MarkerLayerOrder == <<"incidents", "weatherStations", "snowPlows">>

OverlayLayerOrder == <<"roadConditions">>

\* The cached arrays of the enabled layers of `order`, concatenated in order.
RECURSIVE ConcatEnabled(_, _, _)
ConcatEnabled(order, flags, cache) ==
  IF order = <<>> THEN <<>>
  ELSE (IF Enabled(flags, Head(order)) THEN cache[Head(order)] ELSE <<>>)
         \o ConcatEnabled(Tail(order), flags, cache)

Exposed == Elements(filteredMarkers) \cup Elements(filteredOverlays)

\* C12: in every state the exposed markers are the concatenation, in the
\* fixed marker-layer order, of the cached arrays of the enabled marker
\* layers, and the exposed overlays that of the enabled overlay layers; no
\* entity of a disabled layer is exposed and none of an enabled layer is
\* missing.
C12_ViewsEqualFilteredCache ==
  /\ filteredMarkers = ConcatEnabled(MarkerLayerOrder, enabledLayers, cachedData)
  /\ filteredOverlays = ConcatEnabled(OverlayLayerOrder, enabledLayers, cachedData)
  /\ \A l \in LayerType :
       IF Enabled(enabledLayers, l)
       THEN Elements(cachedData[l]) \subseteq Exposed
       ELSE Elements(cachedData[l]) \cap Exposed = {}

\* Every layer is cached; incidents and road conditions are switched off,
\* weather stations and snow plows on.
C12_Witness ==
  /\ \A l \in LayerType : cachedData[l] # <<>>
  /\ ~enabledLayers.incidents
  /\ ~enabledLayers.roadConditions
  /\ enabledLayers.weatherStations
  /\ enabledLayers.snowPlows
  /\ filteredOverlays = <<>>
  /\ Len(filteredMarkers) = Len(cachedData.weatherStations) + Len(cachedData.snowPlows)

\* The normalizer of each layer key (cotripParsers.ts).
Normalize(key, features) ==
  CASE key = "roadConditions" -> parseRoadConditionsToOverlays(features)
    [] key = "incidents" -> parseIncidentsToMarkers(features)
    [] key = "weatherStations" -> parseWeatherStationsToMarkers(features)
    [] key = "snowPlows" -> parseSnowPlowsToMarkers(features)
    [] key = "plannedEvents" -> parsePlannedEventsToMarkers(features)
    [] key = "dmsSigns" -> parseDmsSignsToMarkers(features)
    [] key = "workZones" -> parseWorkZonesToOverlays(features)

\* C13: for each of the seven layer keys, when a refresh settles in which
\* that feed returned at least one valid record and the key's flag is on, the
\* entities normalized from the feed are in the cache and in the exposed
\* markers or overlays.
C13_AllSevenLayersExposed ==
  [][ \A id \in inflight, failing \in OutageScenarios :
        (RefreshSettle(id, failing) /\ phase = "mounted")
        => \A key \in AVAILABLE_LAYERS :
             LET entities == Normalize(key, FetchResults[id][failing].value[key])
             IN  (entities # <<>> /\ Enabled(enabledLayers', key))
                 => /\ key \in DOMAIN cachedData'
                    /\ cachedData'[key] = entities
                    /\ Elements(entities) \subseteq Exposed' ]_vars

\* Whether two flag records switch the same layers on.
SameFlags(a, b) == \A l \in AVAILABLE_LAYERS : Enabled(a, l) = Enabled(b, l)

\* C14: for every layer key, a toggleLayer(key) call followed at once by a
\* second toggleLayer(key) leaves the cache unchanged and brings the enabled
\* flags and the exposed markers and overlays back to what they were before
\* the first call, in content, order and length.
C14_ToggleTwiceRestores ==
  [][ \A id \in ToggledLayers :
        toggleLayer(id)
        => LET twice == Toggled(enabledLayers', id)
           IN  /\ cachedData' = cachedData
               /\ ~SameFlags(enabledLayers', enabledLayers)
               /\ SameFlags(twice, enabledLayers)
               /\ \A l \in DOMAIN enabledLayers : twice[l] = enabledLayers[l]
               /\ Markers(twice, cachedData') = filteredMarkers
               /\ Overlays(twice, cachedData') = filteredOverlays ]_vars

\* Incidents were switched off and on again over a populated cache: the
\* markers are back.
C14_Witness ==
  /\ lastCall = Call("toggleLayer", "incidents", FALSE)
  /\ enabledLayers = DEFAULT_ENABLED_LAYERS
  /\ cachedData.incidents # <<>>
  /\ filteredMarkers = cachedData.incidents

\* The layers switched on.
EnabledSet(flags) == {l \in AVAILABLE_LAYERS : Enabled(flags, l)}

\* C15: enabledLayers starts with roadConditions and incidents on and every
\* other layer off, and only toggleLayer changes it: mounting, a timer tick, a
\* manual refresh, an app-state change, a refresh settling (served or not) and
\* unmounting leave every flag as it was.
C15_OnlyToggleChangesFlags ==
  [][ /\ phase = "rendered" => EnabledSet(enabledLayers) = {"roadConditions", "incidents"}
      /\ enabledLayers' # enabledLayers => \E id \in ToggledLayers : toggleLayer(id)
      /\ ( \/ MountEffects
           \/ TimerTick
           \/ ManualRefresh
           \/ SomeRefreshSettles
           \/ Unmount
           \/ \E nextAppState \in AppStateStatus :
                AppStateChange(nextAppState) \/ HostChange(nextAppState) )
         => enabledLayers' = enabledLayers ]_vars

\* A refresh settled into the cache after the user had changed the selection,
\* and the selection is still the user's.
C15_Witness ==
  /\ lastCall = Call("settle", "served", FALSE)
  /\ cachedData # EmptyCache
  /\ EnabledSet(enabledLayers) = {"roadConditions", "weatherStations", "plannedEvents"}

\* The step is the settle, in a mounted component, of a refresh whose fetch
\* failed (fails = TRUE) or did not (fails = FALSE).
SettleStep(fails) ==
  /\ phase = "mounted"
  /\ \E id \in inflight, failing \in OutageScenarios :
       RefreshSettle(id, failing) /\ (FetchFailed(id, failing) <=> fails)

MaxPoints == 3

\* One entry of a coordinates array: two usable pairs (one on the boundary of
\* the range), and the unusable ones isValidCoordinate names.
CoordinatePool ==
  { Coord(-105, 39),
    Coord(180, -90),
    Coord(181, 39),
    Coord(-105, -91),
    Arr(<<NaN, Num(39)>>),
    Arr(<<Infinity, Num(39)>>),
    Arr(<<Num(-105), Num(39), Num(1600)>>),
    Arr(<<Str(<<"-105">>), Str(<<"39">>)>>),
    Null }

\* The entries the coordinate sets of LineString and MultiPoint records are
\* enumerated over; the other entries of the pool come between two usable ones.
VertexPool ==
  { Coord(-105, 39),
    Coord(180, -90),
    Coord(181, 39),
    Coord(-105, -91),
    Arr(<<NaN, Num(39)>>),
    Arr(<<Infinity, Num(39)>>),
    Null }

CoordinateLists ==
  UNION {[1..n -> VertexPool] : n \in 0..MaxPoints}
    \cup {<<Coord(-105, 39), c, Coord(180, -90)>> : c \in CoordinatePool \ VertexPool}

\* geometry.coordinates of a LineString or MultiPoint record.
RawCoordinates ==
  {Arr(cs) : cs \in CoordinateLists} \cup {Undefined, Str(<<"-105,39">>)}

\* A latitude or longitude field of a snow-plow position.
ScalarPool ==
  {Num(39), Num(-90), Num(-105), Num(91), Num(-181), NaN, Infinity, Str(<<"39">>), Undefined}

GeoRecord(properties, type, coordinates) ==
  Obj([ properties |-> properties,
        geometry |-> Obj([type |-> Str(<<type>>), coordinates |-> coordinates]) ])

\* properties of a GeoJSON record, with and without its id.
RawProperties ==
  { Obj([id |-> Str(<<"id">>), type |-> Str(<<"Crash">>)]),
    Obj([type |-> Str(<<"Crash">>)]) }

\* properties of a WZDx record: whole, without data_source_id, with road_names
\* that is no array, and absent altogether.
RawWorkZoneProperties ==
  { Obj([ core_details |-> Obj([ data_source_id |-> Str(<<"id">>),
                                 road_names |-> Arr(<<Str(<<"I-25">>)>>) ]) ]),
    Obj([core_details |-> Obj([road_names |-> Arr(<<Str(<<"I-25">>)>>)])]),
    Obj([ core_details |-> Obj([ data_source_id |-> Str(<<"id">>),
                                 road_names |-> Str(<<"I-25">>) ]) ]),
    Null }

RawSnowPlow(vehicle, timestamp, info, latitude, longitude) ==
  Obj([ rtdh_timestamp |-> timestamp,
        avl_location |-> Obj([ vehicle |-> vehicle,
                               current_status |-> Obj([info |-> info]),
                               position |-> Obj([ latitude |-> latitude,
                                                  longitude |-> longitude ]) ]) ])

\* avl_location.vehicle: with the first id field, the second, both or none,
\* and a type that is a name or the source's "Unknown".
RawVehicles ==
  { Obj([id |-> Str(<<"id">>), type |-> Str(<<"Plow">>)]),
    Obj([id2 |-> Str(<<"id2">>), type |-> Str(<<"Unknown">>)]),
    Obj([id |-> Str(<<"id">>), id2 |-> Str(<<"id2">>), type |-> Str(<<"Unknown">>)]),
    Obj([id |-> Str(<<>>), type |-> Str(<<"Plow">>)]) }

\* One entry of a weather station's sensors array.
SensorPool ==
  { Obj([type |-> Str(<<"Temperature">>), currentReading |-> Str(<<"72F">>)]),
    Obj([type |-> Str(<<"TEMPERATURE">>), currentReading |-> Str(<<>>)]),
    Obj([type |-> Str(<<"temperature">>), currentReading |-> Str(<<"68F">>)]),
    Obj([type |-> Str(<<"Wind">>), currentReading |-> Str(<<"5 mph">>)]) }

MaxSensors == 2

\* properties of a weather station: an id and a sensors array.
RawStationProperties ==
  { Obj([id |-> Str(<<"id">>), sensors |-> Arr(ss)]) :
      ss \in UNION {[1..n -> SensorPool] : n \in 0..MaxSensors} }

\* The records a feed's array can hold.
RawRecords(key) ==
  {Null} \cup
  CASE key = "roadConditions" ->
         {GeoRecord(p, "LineString", c) : p \in RawProperties, c \in RawCoordinates}
    [] key \in {"incidents", "plannedEvents"} ->
         {GeoRecord(p, "MultiPoint", c) : p \in RawProperties, c \in RawCoordinates}
    [] key = "weatherStations" ->
         {GeoRecord(p, "Point", c) : p \in RawProperties \cup RawStationProperties,
                                     c \in CoordinatePool \cup {Undefined}}
    [] key = "dmsSigns" ->
         {GeoRecord(p, "Point", c) : p \in RawProperties, c \in CoordinatePool \cup {Undefined}}
    [] key = "workZones" ->
         {GeoRecord(p, type, c) : p \in RawWorkZoneProperties,
                                  type \in {"LineString", "MultiPoint", "Polygon"},
                                  c \in RawCoordinates}
    [] OTHER ->
         {RawSnowPlow(v, ts, info, lat, lon) :
            v \in RawVehicles, ts \in {Undefined, Num(7)},
            info \in {Undefined, Str(<<"Unknown">>), Str(<<"Plowing">>)},
            lat \in ScalarPool, lon \in ScalarPool}

\* Two whole records of a feed that carry the same identifier: two GeoJSON
\* records with the same id, two snow plows without vehicle id reported at the
\* same timestamp, a work zone without data_source_id before one whose
\* data_source_id is the text of the first one's positional fallback.
SharedIdRecords(key) ==
  CASE key = "roadConditions" ->
         << GeoRecord(Obj([id |-> Str(<<"id">>), routeName |-> Str(<<"I-70">>)]),
                      "LineString", Arr(<<Coord(-105, 39), Coord(-106, 39)>>)),
            GeoRecord(Obj([id |-> Str(<<"id">>), routeName |-> Str(<<"US-6">>)]),
                      "LineString", Arr(<<Coord(-105, 40), Coord(-106, 40)>>)) >>
    [] key \in {"incidents", "plannedEvents"} ->
         << GeoRecord(Obj([id |-> Str(<<"id">>), type |-> Str(<<"Closure">>)]),
                      "MultiPoint", Arr(<<Coord(-105, 39)>>)),
            GeoRecord(Obj([id |-> Str(<<"id">>), type |-> Str(<<"Crash">>)]),
                      "MultiPoint", Arr(<<Coord(-105, 40)>>)) >>
    [] key \in {"weatherStations", "dmsSigns"} ->
         << GeoRecord(Obj([id |-> Str(<<"id">>), type |-> Str(<<"Closure">>)]),
                      "Point", Coord(-105, 39)),
            GeoRecord(Obj([id |-> Str(<<"id">>), type |-> Str(<<"Crash">>)]),
                      "Point", Coord(-105, 40)) >>
    [] key = "workZones" ->
         << GeoRecord(Obj([core_details |-> Obj([road_names |-> Arr(<<Str(<<"I-25">>)>>)])]),
                      "LineString", Arr(<<Coord(-105, 39), Coord(-106, 39)>>)),
            GeoRecord(Obj([core_details |-> Obj([data_source_id |-> Str(<<"wz-", 0>>)])]),
                      "MultiPoint", Arr(<<Coord(-105, 40), Coord(-106, 40)>>)) >>
    [] OTHER ->
         << Obj([ rtdh_timestamp |-> Num(7),
                  avl_location |-> Obj([ vehicle |-> Obj([type |-> Str(<<"Plow">>)]),
                                         position |-> Obj([ latitude |-> Num(39),
                                                            longitude |-> Num(-105) ]) ]) ]),
            Obj([ rtdh_timestamp |-> Num(7),
                  avl_location |-> Obj([ vehicle |-> Obj([type |-> Str(<<"Plow">>)]),
                                         position |-> Obj([ latitude |-> Num(40),
                                                            longitude |-> Num(-105) ]) ]) ]) >>

\* Array entries that are no record of the feed.
MalformedRecords ==
  { Null, Undefined, Num(5), Str(<<"x">>), Arr(<<>>),
    Obj([properties |-> Null, geometry |-> Null]),
    Obj([avl_location |-> Str(<<"x">>)]) }

\* Arguments that are no array.
NonArrays ==
  {Null, Undefined, Num(5), Str(<<"x">>), Obj([features |-> Arr(<<>>)])}

\* What a normalizer is called with: one record, alone or behind a record of
\* the feed that is whole; two records sharing an identifier; an entry that is
\* no record between two whole records; no array at all.
RawFeatures(key) ==
  {Arr(<<r>>) : r \in RawRecords(key)}
    \cup {Arr(<<ServerRecord(key, 1, 1), r>>) : r \in RawRecords(key)}
    \cup {Arr(SharedIdRecords(key))}
    \cup {Arr(<<ServerRecord(key, 1, 1), r, ServerRecord(key, 1, 2)>>) : r \in MalformedRecords}
    \cup NonArrays

ParseInit == Init /\ hostState = "active"

\* parseXToMarkers(features) / parseXToOverlays(features): a pure function of
\* its argument, called once.
Parse ==
  /\ normalizer = "none"
  /\ \E key \in Feeds : \E input \in RawFeatures(key) :
       /\ normalizer' = key
       /\ rawFeatures' = input
       /\ raised' = ParserThrows(input)
       /\ parsed' = IF ParserThrows(input) THEN <<>> ELSE Normalize(key, input)
  /\ UNCHANGED <<controllerVars, fetchVars>>

ParseNext == Parse

ParseSpec == ParseInit /\ [][ParseNext]_vars


(***************************************************************************)
(* Claims about the normalizers, checked under ParseSpec.                  *)
(***************************************************************************)
\* A number that is neither NaN nor infinite, within [lo, hi].
FiniteWithin(x, lo, hi) ==
  /\ x.t = "number"
  /\ ~x.nan
  /\ x # Infinity
  /\ x.v >= lo
  /\ x.v <= hi

\* C17: whatever array a normalizer is called with, every marker it returns has
\* a finite longitude in [-180, 180] and a finite latitude in [-90, 90], and
\* every vertex of every overlay it returns is a two-element pair of such a
\* longitude and latitude.
C17_OutputCoordinatesValid ==
  \A e \in Elements(parsed) :
    IF "coordinate" \in DOMAIN e
    THEN /\ FiniteWithin(e.coordinate.longitude, -180, 180)
         /\ FiniteWithin(e.coordinate.latitude, -90, 90)
    ELSE \A vertex \in Elements(e.coordinates) :
           /\ IsArray(vertex)
           /\ Len(vertex.items) = 2
           /\ FiniteWithin(vertex.items[1], -180, 180)
           /\ FiniteWithin(vertex.items[2], -90, 90)

\* The raw coordinates of the last record of the array parsed.
LastRecord ==
  IF Iterate(rawFeatures) = <<>> THEN Undefined
  ELSE Iterate(rawFeatures)[Len(Iterate(rawFeatures))]

LastCoordinates == Get(Get(LastRecord, "geometry"), "coordinates")

\* A road-condition record with an infinite vertex, a vertex on the boundary of
\* the range and an ordinary one yields an overlay of the last two.
C17_Witness ==
  /\ normalizer = "roadConditions"
  /\ Len(Iterate(rawFeatures)) = 1
  /\ LastCoordinates = Arr(<<Arr(<<Infinity, Num(39)>>), Coord(180, -90), Coord(-105, 39)>>)
  /\ Len(parsed) = 1
  /\ parsed[1].coordinates = <<Coord(180, -90), Coord(-105, 39)>>

\* The entities returned for the last record of the array parsed.
OwnEntities == SelectSeq(parsed, LAMBDA e : e.rawData = LastRecord)

\* The usable entries of the last record's coordinates, in source order.
ValidVertices ==
  IF IsArray(LastCoordinates) THEN FilterValid(LastCoordinates.items) ELSE <<>>

\* C18: an incident record with an id whose MultiPoint set holds N valid
\* coordinates, interleaved with invalid ones or not, yields exactly N markers,
\* one at each valid coordinate in order, whose ids are the record's id followed
\* by "#" and the indices 0..N-1.
C18_IncidentIdsZeroToNMinusOne ==
  (/\ normalizer = "incidents"
   /\ Truthy(Get(Get(LastRecord, "properties"), "id"))
   /\ IsArray(LastCoordinates))
  => /\ Len(OwnEntities) = Len(ValidVertices)
     /\ \A i \in 1..Len(ValidVertices) :
          /\ OwnEntities[i].id
               = Str(Text(Get(Get(LastRecord, "properties"), "id")) \o <<"#", i - 1>>)
          /\ OwnEntities[i].coordinate
               = [ latitude |-> ValidVertices[i].items[2],
                   longitude |-> ValidVertices[i].items[1] ]

\* A two-element array of a finite longitude in [-180, 180] and a finite
\* latitude in [-90, 90].
UsablePair(vertex) ==
  /\ IsArray(vertex)
  /\ Len(vertex.items) = 2
  /\ FiniteWithin(vertex.items[1], -180, 180)
  /\ FiniteWithin(vertex.items[2], -90, 90)

\* C19: a planned-event record yields at most one marker, and that marker lies
\* at the first coordinate of the record's MultiPoint set; when that first
\* coordinate is invalid, or the set is empty or absent, the record yields no
\* marker, whatever the later coordinates are.
C19_PlannedEventFirstPointOnly ==
  normalizer = "plannedEvents"
  => /\ Len(OwnEntities) <= 1
     /\ IF /\ IsArray(LastCoordinates)
           /\ LastCoordinates.items # <<>>
           /\ UsablePair(LastCoordinates.items[1])
        THEN \A i \in 1..Len(OwnEntities) :
               OwnEntities[i].coordinate
                 = [ latitude |-> LastCoordinates.items[1].items[2],
                     longitude |-> LastCoordinates.items[1].items[1] ]
        ELSE OwnEntities = <<>>

\* A record with an id whose first coordinate is out of range and whose second
\* is valid yields nothing, behind a record that yields its marker.
C19_Witness ==
  /\ normalizer = "plannedEvents"
  /\ Len(Iterate(rawFeatures)) = 2
  /\ Truthy(Get(Get(LastRecord, "properties"), "id"))
  /\ LastCoordinates = Arr(<<Coord(181, 39), Coord(-105, 39)>>)
  /\ Len(parsed) = 1
  /\ OwnEntities = <<>>

\* The overlays returned for the last record of the array parsed: a work-zone
\* overlay carries its record, a road-condition overlay its record's id and
\* route name.
OwnOverlays ==
  SelectSeq(parsed,
            LAMBDA e : IF "rawData" \in DOMAIN e THEN e.rawData = LastRecord
                       ELSE /\ e.id = Get(Get(LastRecord, "properties"), "id")
                            /\ e.routeName = OrElse(Get(Get(LastRecord, "properties"), "routeName"),
                                                    Str(<<"Unknown Route">>)))

\* The vertices of the last record that are usable pairs, in source order.
RemainingVertices ==
  IF IsArray(LastCoordinates) THEN SelectSeq(LastCoordinates.items, UsablePair) ELSE <<>>

\* The last record carries the fields its normalizer reads besides the
\* geometry: a road condition its id; a work zone a properties object whose
\* road_names, when present, is an array, and a geometry of one of the two
\* kinds.
CarriesExpectedFields ==
  IF normalizer = "roadConditions"
  THEN Truthy(Get(Get(LastRecord, "properties"), "id"))
  ELSE /\ Get(LastRecord, "properties").t = "object"
       /\ Get(Get(Get(LastRecord, "properties"), "core_details"), "road_names").t
            \in {"undefined", "array"}
       /\ Get(Get(LastRecord, "geometry"), "type")
            \in {Str(<<"LineString">>), Str(<<"MultiPoint">>)}

C21_IdsUniqueWithinLayer ==
  \A i \in DOMAIN parsed : \A j \in DOMAIN parsed :
    i # j => parsed[i].id # parsed[j].id

\* What the normalizer returns for one whole record of the feed by itself.
Alone(record) == Normalize(normalizer, Arr(<<record>>))

\* C22: whatever a normalizer is called with, an array or not, it returns
\* without throwing; and an entry that fails validation or parsing removes
\* nothing but its own entities: the whole records before and after it yield
\* what they yield by themselves.
C22_NeverRaisesSkipsPerRecord ==
  normalizer # "none"
  => /\ ~raised
     /\ \A r \in MalformedRecords :
          rawFeatures = Arr(<<ServerRecord(normalizer, 1, 1), r, ServerRecord(normalizer, 1, 2)>>)
          => parsed = Alone(ServerRecord(normalizer, 1, 1))
                        \o Alone(ServerRecord(normalizer, 1, 2))

\* The fields of the last record a snow-plow marker is made from.
PlowVehicle == Get(Get(LastRecord, "avl_location"), "vehicle")

PlowPosition == Get(Get(LastRecord, "avl_location"), "position")

\* The id the record yields: the first vehicle-id field, else the second, else
\* the text of the timestamp; undefined when none of the three is there.
PlowId ==
  IF Truthy(Get(PlowVehicle, "id")) THEN Get(PlowVehicle, "id")
  ELSE IF Truthy(Get(PlowVehicle, "id2")) THEN Get(PlowVehicle, "id2")
  ELSE IF Truthy(Get(LastRecord, "rtdh_timestamp"))
       THEN Str(Text(Get(LastRecord, "rtdh_timestamp")))
  ELSE Undefined

\* C23: a snow-plow record yields no marker when none of its two vehicle-id
\* fields and its timestamp gives an id, or when its latitude or longitude is
\* missing, non-numeric, NaN or out of range; otherwise it yields exactly one
\* marker, whose id is the first vehicle-id field, else the second, else the
\* text of the timestamp, at the record's position, and whose title and
\* subtitle do not show the source's "Unknown".
C23_SnowPlowNormalization ==
  normalizer = "snowPlows" /\ ~raised
  => IF \/ PlowId = Undefined
        \/ ~FiniteWithin(Get(PlowPosition, "latitude"), -90, 90)
        \/ ~FiniteWithin(Get(PlowPosition, "longitude"), -180, 180)
     THEN OwnEntities = <<>>
     ELSE /\ Len(OwnEntities) = 1
          /\ OwnEntities[1].id = PlowId
          /\ OwnEntities[1].coordinate
               = [ latitude |-> Get(PlowPosition, "latitude"),
                   longitude |-> Get(PlowPosition, "longitude") ]
          /\ "Unknown" \notin Elements(OwnEntities[1].title.s)
          /\ OwnEntities[1].subtitle # Str(<<"Unknown">>)

\* A record with both vehicle-id fields, type and status "Unknown" and a valid
\* position yields one marker under the first id, titled "Snow Plow", without
\* subtitle.
C23_Witness ==
  /\ normalizer = "snowPlows"
  /\ Len(Iterate(rawFeatures)) = 1
  /\ PlowVehicle = Obj([id |-> Str(<<"id">>), id2 |-> Str(<<"id2">>), type |-> Str(<<"Unknown">>)])
  /\ Get(Get(Get(LastRecord, "avl_location"), "current_status"), "info") = Str(<<"Unknown">>)
  /\ Len(parsed) = 1
  /\ parsed[1].id = Str(<<"id">>)
  /\ parsed[1].title = Str(<<"Snow Plow">>)
  /\ parsed[1].subtitle = Undefined

\* The readings of the last record's temperature-type sensors that have one,
\* the type compared without regard to case.
TemperatureReadings ==
  LET sensors == Iterate(Get(Get(LastRecord, "properties"), "sensors"))
  IN  { Get(sensor, "currentReading") :
          sensor \in { x \in Elements(sensors) :
                         /\ Get(x, "type").t = "string"
                         /\ toLowerCase(Get(x, "type").s) = <<"temperature">>
                         /\ Truthy(Get(x, "currentReading")) } }

\* C24: a weather-station Point feature with an id and a valid coordinate
\* [lon, lat] yields exactly one marker, of layerType "weatherStations", at
\* latitude lat and longitude lon; its subtitle is the current reading of a
\* temperature-type sensor when the record has a temperature-type sensor with a
\* reading, and absent otherwise; with an invalid coordinate it yields none.
C24_WeatherStationNormalization ==
  (/\ normalizer = "weatherStations"
   /\ ~raised
   /\ Truthy(Get(Get(LastRecord, "properties"), "id")))
  => IF UsablePair(LastCoordinates)
     THEN /\ Len(OwnEntities) = 1
          /\ OwnEntities[1].layerType = "weatherStations"
          /\ OwnEntities[1].coordinate
               = [ latitude |-> LastCoordinates.items[2],
                   longitude |-> LastCoordinates.items[1] ]
          /\ IF TemperatureReadings # {}
             THEN OwnEntities[1].subtitle \in TemperatureReadings
             ELSE OwnEntities[1].subtitle = Undefined
     ELSE OwnEntities = <<>>


(***************************************************************************)
(* Claims about overlapping refreshes and teardown, checked under Spec.    *)
(***************************************************************************)
\* The refreshes that settle in the step.
Settling == inflight \ inflight'

\* C25: refreshes are not cancelled and the last to settle wins: whenever the
\* fetch of a refresh settles on a mounted controller, whether or not a later
\* refresh was requested or has settled meanwhile, the cache becomes the
\* normalized result of that fetch; and nothing else changes the cache.
C25_LastSettledWins ==
  [][ /\ \A id \in Settling :
           phase # "unmounted"
           => \E failing \in OutageScenarios : cachedData' = NormalizedResults[id][failing]
      /\ Settling = {} => cachedData' = cachedData ]_vars

\* Two refreshes were requested, both have settled, the first after the
\* second: the cache holds the records served to the first.
C25_Witness ==
  /\ phase = "mounted"
  /\ issued = 2
  /\ inflight = {}
  /\ lastCall.op = "settle"
  /\ CachedEntities # {}
  /\ \A e \in CachedEntities : CycleOf(e) = 1


\* C27: a refresh whose fetch settles while the app is not active, on a
\* mounted controller, still replaces the cache with its result, sets
\* lastUpdated to the time of the settle and resets isLoading: the app-state
\* guard is not consulted when a refresh settles.
C27_BackgroundSettleStillWrites ==
  [][ \A id \in Settling :
        (phase = "mounted" /\ appStateRef # "active")
        => /\ \E failing \in OutageScenarios : cachedData' = NormalizedResults[id][failing]
           /\ lastUpdated' = now'
           /\ lastUpdated' > lastUpdated
           /\ ~isLoading' ]_vars

\* The only refresh requested has settled with the app in the background: the
\* cache is filled, lastUpdated is set and isLoading is down.
C27_Witness ==
  /\ phase = "mounted"
  /\ lastCall.op = "settle"
  /\ issued = 1
  /\ hostState = "background"
  /\ appStateRef = "background"
  /\ CachedEntities # {}
  /\ lastUpdated # NoDate
  /\ ~isLoading


\* C28: the interval timer and the app-state subscription exist exactly while
\* the controller is mounted; they are set up by the mount effects and by no
\* other step (no toggle, refresh or settle sets up another); and once the
\* controller is unmounted no step starts a refresh.
C28_TeardownStopsTriggers ==
  [][ /\ refreshIntervalRef' <=> phase' = "mounted"
      /\ subscription' <=> phase' = "mounted"
      /\ (refreshIntervalRef' /\ ~refreshIntervalRef) \/ (subscription' /\ ~subscription)
           => phase = "rendered"
      /\ phase = "unmounted" => issued' = issued /\ inflight' \subseteq inflight ]_vars

\* After the unmount, with a refresh budget left, the host came to the
\* foreground: nothing is in flight and the timer and subscription are gone.
C28_Witness ==
  /\ phase = "unmounted"
  /\ ~refreshIntervalRef
  /\ ~subscription
  /\ lastCall = Call("hostChange", "active", FALSE)
  /\ hostState = "active"
  /\ issued < MaxRefreshes
  /\ inflight = {}


C26_ConcurrentFanOut ==
  /\ (\E f \in Feeds : calls[f].pc # "idle") => (\A f \in Feeds : calls[f].pc # "idle")
  /\ joined.pc = "awaiting" => (ENABLED Join <=> \A f \in Feeds : Settled(calls[f]))
  /\ joined.pc \notin {"idle", "awaiting"}
       => \A f \in Feeds : Settled(calls[f]) /\ joined.value[f] = calls[f].value

\* All seven requests are in flight at once.
C26_Witness ==
  /\ joined.pc = "awaiting"
  /\ \A f \in Feeds : calls[f].pc = "awaitFetch" /\ calls[f].timer = "armed"

\* C30: a fetcher call that has settled, by its return, by a non-2xx status or
\* by an exception, has its timer disarmed; a timer fires only on a call that
\* is still pending; and the firing changes that call and no other.
C30_TimerDisarmedOnExit ==
  [][ \A f \in Feeds :
        /\ Settled(calls'[f]) => calls'[f].timer \in {"cleared", "fired"}
        /\ (calls'[f].timer = "fired" /\ calls[f].timer # "fired")
             => /\ Pending(calls[f])
                /\ \A g \in Feeds \ {f} : calls'[g] = calls[g] ]_vars

\* Calls have settled on each exit path: one returned its features, one ended
\* on a non-2xx status or a network error with its timer cleared, one was
\* aborted by its own timer, while the others go on.
C30_Witness ==
  /\ calls["roadConditions"].pc = "returned"
  /\ calls["roadConditions"].timer = "cleared"
  /\ calls["incidents"].pc = "caught"
  /\ calls["incidents"].timer = "cleared"
  /\ calls["weatherStations"].pc = "caught"
  /\ calls["weatherStations"].timer = "fired"
  /\ calls["snowPlows"].pc = "awaitFetch"
  /\ calls["snowPlows"].timer = "armed"

====
